---- MODULE Spec2Model ----
(***************************************************************************)
(* GraphDefinition (graphnet/models/graphs/graph_definition.py): the       *)
(* constructor and forward(), one action per statement group of forward(). *)
(*                                                                         *)
(* Representation.  Optional[T] is a sequence of length 0 (None) or 1.     *)
(* A numpy array / tensor of shape [rows, cols] is a sequence of rows.     *)
(* A dict is a sequence of <<key, value>> pairs in insertion order.        *)
(* A torch_geometric Data object is a function from field name to value;   *)
(* graph.f and graph["f"] are the same store.                              *)
(***************************************************************************)
EXTENDS Integers, Sequences, FiniteSets, TLC

\* ------------------------------------------------------------------ bounds
\* Largest number of rows (pulses) of a table.
MaxRows == 2
\* Largest number of truth dictionaries in one call.
MaxDicts == 2
\* forward() is not called again once the generator has drawn this many samples.
MaxDraws == 2

\* ------------------------------------------------------------------ values
None == <<>>
Some(v) == <<v>>
IsNone(o) == o = <<>>
Get(o) == o[1]

\* Feature (column) names; "x" is the reserved field name of Data.
FeatureNames == {"x1", "x"}
\* A table or name list has at most as many columns as there are feature names.
MaxCols == Cardinality(FeatureNames)
\* Name lists a caller can pass: every sequence of 1..MaxCols feature names.
NameLists == UNION {[1..n -> FeatureNames] : n \in 1..MaxCols}

\* Field values of a graph: kind is "tensor0" (0-d tensor), "tensor1" (1-d),
\* "tensor2" (2-d), "str" or "list"; mat holds the numbers, list the strings.
Scalar(n) == [kind |-> "tensor0", mat |-> <<<<n>>>>, list |-> <<>>]
Vector(v) == [kind |-> "tensor1", mat |-> <<v>>, list |-> <<>>]
Matrix(m) == [kind |-> "tensor2", mat |-> m, list |-> <<>>]
StrVal(s) == [kind |-> "str", mat |-> <<>>, list |-> <<s>>]
ListVal(l) == [kind |-> "list", mat |-> <<>>, list |-> l]

NoGraph == [f \in {} |-> Scalar(0)]
Put(g, k, v) == [f \in (DOMAIN g) \cup {k} |-> IF f = k THEN v ELSE g[f]]
Has(g, k) == k \in DOMAIN g

\* Column c of a matrix, as a sequence over the rows.
Column(m, c) == [r \in 1..Len(m) |-> m[r][c]]
NumCols(m) == Len(m[1])

\* dict helpers (a dict is a sequence of <<key, value>> pairs, keys distinct)
Keys(d) == [i \in 1..Len(d) |-> d[i][1]]
Values(d) == [i \in 1..Len(d) |-> d[i][2]]
KeySet(d) == {d[i][1] : i \in 1..Len(d)}

\* list.index(key): the smallest index holding key (ValueError if there is none).
IndexOf(l, key) == CHOOSE i \in 1..Len(l) : l[i] = key /\ \A j \in 1..(i - 1) : l[j] # key
Contains(l, key) == \E i \in 1..Len(l) : l[i] = key

\* ------------------------------------------------------------------ numpy Generator
\* default_rng(seed): the state is the seed and the number of samples drawn.
DefaultRng(seed) == [seed |-> seed, pos |-> 0]
\* Seeds the system entropy can give default_rng().
EntropySeeds == {1, 2}
\* The i-th standard-normal sample of the stream of a seed (a fixed stream per seed).
Sample(seed, i) == LET r == (seed + i) % 3 IN IF r = 0 THEN -1 ELSE r
\* Generator.normal(loc, scale): loc is rows x k, scale has k entries (broadcast
\* over the rows); rows * k samples are drawn in row-major order.
Normal(rng, loc, scale) ==
    LET k == Len(scale)
    IN [out |-> [r \in 1..Len(loc) |->
                   [j \in 1..k |-> loc[r][j] + scale[j] * Sample(rng.seed, rng.pos + (r - 1) * k + (j - 1))]],
        rng |-> [rng EXCEPT !.pos = rng.pos + Len(loc) * k]]

\* ------------------------------------------------------------------ collaborators
\* Detector.feature_map(): the detector's declared features, in key order.
DetectorFeatureMap == <<"x1", "x">>
\* Detector.__call__: standardizes a tensor; the result has the same shape.
DetectorCall(m, names) == [r \in 1..Len(m) |-> [c \in 1..Len(m[r]) |-> 2 * m[r][c]]]
\* NodesAsPulses.__call__: the graph whose x is the tensor, and the output feature
\* names set at construction.
NodeDefinitionCall(self, m) == [graph |-> Put(NoGraph, "x", Matrix(m)), names |-> self.out_names]
\* EdgeDefinition.__call__: the graph with connectivity attached.
EdgeDefinitionCall(g) == Put(g, "edge_index", Vector([r \in 1..Len(g["x"].mat) |-> r]))
\* self.__class__.__name__
ClassName == "GraphDefinition"

\* ------------------------------------------------------------------ __init__
NoSelf ==
    [status |-> "none", names |-> <<>>, out_names |-> <<>>, nb_inputs |-> 0, nb_outputs |-> 0,
     pert |-> None, cols |-> None, edge |-> FALSE, dtype |-> "float", lwdefault |-> None]

\* InitRng with the seed dropped: default_rng() whatever the seed.
InitRngUnseeded(seed, entropy) == DefaultRng(entropy)

\* seed is None ("none"), an int ("int") or of another type ("other").
\* self.rng of lines 94-104; entropy is what the system gives default_rng().
InitRng(seed, entropy) ==
    IF seed.kind = "int" THEN DefaultRng(seed.v) ELSE DefaultRng(entropy)

\* The error __init__ raises, "" if none: list.index raises ValueError on a
\* perturbation key that is no input feature name, and so does a seed of another type.
InitError(names, pert, seed) ==
    IF ~IsNone(pert) /\ \E i \in 1..Len(Get(pert)) : ~Contains(names, Get(pert)[i][1])
    THEN "ValueError"
    ELSE IF seed.kind = "other" THEN "ValueError" ELSE ""

\* The members __init__ sets (all but self.rng).
InitSelf(namesArg, pert, edge, dtype) ==
    LET names == IF IsNone(namesArg) THEN DetectorFeatureMap ELSE Get(namesArg)
    IN [status |-> "ok",
        names |-> names,
        out_names |-> names,
        nb_inputs |-> Len(names),
        nb_outputs |-> Len(names),
        pert |-> pert,
        cols |-> IF IsNone(pert) THEN None
                 ELSE Some([i \in 1..Len(Get(pert)) |-> IndexOf(names, Get(pert)[i][1])]),
        edge |-> edge,
        dtype |-> dtype,
        lwdefault |-> None]

\* ------------------------------------------------------------------ forward: the steps
\* ValidateInput comparing the names as sets, not position by position.
ValidateInputUnordered(self, input_features, input_feature_names) ==
    /\ NumCols(input_features) = Len(input_feature_names)
    /\ Len(input_feature_names) = Len(self.names)
    /\ \A idx \in 1..Len(input_feature_names) : Contains(self.names, input_feature_names[idx])

\* _validate_input: TRUE iff the three assertions pass.
ValidateInput(self, input_features, input_feature_names) ==
    /\ NumCols(input_features) = Len(input_feature_names)
    /\ Len(input_feature_names) = Len(self.names)
    /\ \A idx \in 1..Len(input_feature_names) : input_feature_names[idx] = self.names[idx]

\* PerturbInput replacing every column, not the resolved ones.
PerturbEveryColumn(self, gen, input_features) ==
    IF IsNone(self.pert)
    THEN [err |-> "", table |-> input_features, rng |-> gen]
    ELSE LET n == Normal(gen, input_features,
                         [c \in 1..NumCols(input_features) |-> Values(Get(self.pert))[1]])
         IN [err |-> "", table |-> n.out, rng |-> n.rng]

\* PerturbInput drawing from the generator before it looks at the specification.
PerturbAlwaysDraws(self, gen, input_features) ==
    IF IsNone(self.pert)
    THEN [err |-> "", table |-> input_features,
          rng |-> Normal(gen, input_features, [c \in 1..NumCols(input_features) |-> 0]).rng]
    ELSE LET cols == Get(self.cols)
             k == Len(cols)
             loc == [r \in 1..Len(input_features) |-> [j \in 1..k |-> input_features[r][cols[j]]]]
             n == Normal(gen, loc, Values(Get(self.pert)))
         IN [err |-> "",
             table |-> [r \in 1..Len(input_features) |->
                         [c \in 1..Len(input_features[r]) |->
                            IF \E j \in 1..k : cols[j] = c
                            THEN n.out[r][CHOOSE j \in 1..k : cols[j] = c]
                            ELSE input_features[r][c]]],
             rng |-> n.rng]

\* _perturb_input: the array after the in-place assignment, and the generator.
PerturbInput(self, gen, input_features) ==
    IF IsNone(self.pert)
    THEN [err |-> "", table |-> input_features, rng |-> gen]
    ELSE LET cols == Get(self.cols)
             k == Len(cols)
         IN IF \E j \in 1..k : cols[j] > NumCols(input_features)
            THEN [err |-> "IndexError", table |-> input_features, rng |-> gen]
            ELSE LET loc == [r \in 1..Len(input_features) |-> [j \in 1..k |-> input_features[r][cols[j]]]]
                     n == Normal(gen, loc, Values(Get(self.pert)))
                 IN [err |-> "",
                     table |-> [r \in 1..Len(input_features) |->
                                 [c \in 1..Len(input_features[r]) |->
                                    IF \E j \in 1..k : cols[j] = c
                                    THEN n.out[r][CHOOSE j \in 1..k : cols[j] = c]
                                    ELSE input_features[r][c]]],
                     rng |-> n.rng]

\* torch.tensor(input_features, dtype) and the detector's standardization.
Standardize(self, input_features, input_feature_names) ==
    DetectorCall(input_features, input_feature_names)

\* AddLossWeights storing the default without testing that there is one.
AddLossWeightsUnchecked(self, graph, loss_weight_column, loss_weight, loss_weight_default_value) ==
    IF ~IsNone(loss_weight) /\ ~IsNone(loss_weight_column)
    THEN IF Get(loss_weight) < 0
         THEN [err |-> "",
               graph |-> Put(graph, Get(loss_weight_column),
                             Matrix(<<<<IF IsNone(loss_weight_default_value) THEN 0
                                        ELSE Get(loss_weight_default_value)>>>>))]
         ELSE [err |-> "", graph |-> Put(graph, Get(loss_weight_column), Matrix(<<<<Get(loss_weight)>>>>))]
    ELSE [err |-> "", graph |-> graph]

\* _add_loss_weights
AddLossWeights(self, graph, loss_weight_column, loss_weight, loss_weight_default_value) ==
    IF ~IsNone(loss_weight) /\ ~IsNone(loss_weight_column)
    THEN IF Get(loss_weight) < 0
         THEN IF IsNone(loss_weight_default_value)
              THEN [err |-> "ValueError", graph |-> graph]
              ELSE IF IsNone(self.lwdefault)
                   THEN [err |-> "AttributeError", graph |-> graph]
                   ELSE [err |-> "", graph |-> Put(graph, Get(loss_weight_column), Matrix(<<<<Get(self.lwdefault)>>>>))]
         ELSE [err |-> "", graph |-> Put(graph, Get(loss_weight_column), Matrix(<<<<Get(loss_weight)>>>>))]
    ELSE [err |-> "", graph |-> graph]

\* AddTruthDict that keeps a field the graph already has.
AddTruthDictKeepFirst(graph, truth_dict) ==
    LET conv == {key \in DOMAIN truth_dict : truth_dict[key].isnum}
    IN [f \in (DOMAIN graph) \cup conv |->
          IF f \in DOMAIN graph THEN graph[f] ELSE Scalar(truth_dict[f].v)]

\* One truth dictionary: graph[key] = torch.tensor(value), a TypeError skipped.
AddTruthDict(graph, truth_dict) ==
    LET conv == {key \in DOMAIN truth_dict : truth_dict[key].isnum}
    IN [f \in (DOMAIN graph) \cup conv |->
          IF f \in conv THEN Scalar(truth_dict[f].v) ELSE graph[f]]

RECURSIVE AddTruthFrom(_, _, _)
AddTruthFrom(graph, truth_dicts, i) ==
    IF i > Len(truth_dicts) THEN graph
    ELSE AddTruthFrom(AddTruthDict(graph, truth_dicts[i]), truth_dicts, i + 1)

\* _add_truth
AddTruth(graph, truth_dicts) == AddTruthFrom(graph, truth_dicts, 1)

\* A custom label function applied to the graph it receives.
ApplyFn(fn, graph) ==
    IF fn = "nfields" THEN Scalar(Cardinality(DOMAIN graph))
    ELSE Matrix([r \in 1..Len(graph["x"].mat) |-> [c \in 1..Len(graph["x"].mat[r]) |-> 0]])

RECURSIVE AddCustomFrom(_, _, _, _)
AddCustomFrom(graph, fns, i, seen) ==
    IF i > Len(fns) THEN [graph |-> graph, seen |-> seen]
    ELSE AddCustomFrom(Put(graph, fns[i][1], ApplyFn(fns[i][2], graph)), fns, i + 1,
                       Append(seen, graph))

\* _add_custom_labels: the graph, and the graphs the functions received.
AddCustomLabels(graph, custom_label_functions) ==
    AddCustomFrom(graph, custom_label_functions, 1, <<>>)

RECURSIVE AddFeaturesFrom(_, _, _)
AddFeaturesFrom(graph, node_feature_names, index) ==
    IF index > Len(node_feature_names) THEN [err |-> "", graph |-> graph]
    ELSE IF node_feature_names[index] # "x"
         THEN IF graph["x"].kind = "tensor2" /\ index <= NumCols(graph["x"].mat)
              THEN AddFeaturesFrom(Put(graph, node_feature_names[index],
                                       Vector(Column(graph["x"].mat, index))),
                                   node_feature_names, index + 1)
              ELSE [err |-> "IndexError", graph |-> graph]
         ELSE AddFeaturesFrom(graph, node_feature_names, index + 1)

RECURSIVE AddFeaturesUnreservedFrom(_, _, _)
AddFeaturesUnreservedFrom(graph, node_feature_names, index) ==
    IF index > Len(node_feature_names) THEN [err |-> "", graph |-> graph]
    ELSE IF graph["x"].kind = "tensor2" /\ index <= NumCols(graph["x"].mat)
         THEN AddFeaturesUnreservedFrom(Put(graph, node_feature_names[index],
                                            Vector(Column(graph["x"].mat, index))),
                                        node_feature_names, index + 1)
         ELSE [err |-> "IndexError", graph |-> graph]

\* AddFeaturesIndividually without the test for the reserved name.
AddFeaturesUnreserved(graph, node_feature_names) ==
    AddFeaturesUnreservedFrom(Put(graph, "features", ListVal(node_feature_names)), node_feature_names, 1)

\* _add_features_individually
AddFeaturesIndividually(graph, node_feature_names) ==
    AddFeaturesFrom(Put(graph, "features", ListVal(node_feature_names)), node_feature_names, 1)

\* ForwardOrder with the perturbation before the validation.
OrderPerturbFirst ==
    <<"perturb", "validate", "standardize", "node", "pulses", "edges", "path",
      "lossweight", "truth", "custom", "features", "stamp">>

\* ForwardOrder with the custom labels before the truth labels.
OrderCustomFirst ==
    <<"validate", "perturb", "standardize", "node", "pulses", "edges", "path",
      "lossweight", "custom", "truth", "features", "stamp">>

\* The statement groups of forward, in the order of the code.
ForwardOrder ==
    <<"validate", "perturb", "standardize", "node", "pulses", "edges", "path",
      "lossweight", "truth", "custom", "features", "stamp">>

\* The step that follows a step of forward.
StepAfter(step) ==
    LET i == CHOOSE j \in 1..Len(ForwardOrder) : ForwardOrder[j] = step
    IN IF i = Len(ForwardOrder) THEN "done" ELSE ForwardOrder[i + 1]

\* ------------------------------------------------------------------ inputs
TableOf(r, c) == [i \in 1..r |-> [j \in 1..c |-> 10 * i + j]]
Tables == {TableOf(r, c) : r \in 1..MaxRows, c \in 1..MaxCols}

PertDicts == {None, Some(<<<<"x1", 1>>>>), Some(<<<<"x", 2>>, <<"x1", 1>>>>)}
SeedArgs == {[kind |-> "none", v |-> 0], [kind |-> "int", v |-> 1],
             [kind |-> "int", v |-> 2], [kind |-> "other", v |-> 0]}

\* Truth values: a number, or a text value (torch.tensor raises TypeError on it).
\* A dictionary holds any of the keys "a" and "x": any value under "a", 1 under "x".
Num(n) == [isnum |-> TRUE, v |-> n]
Text == [isnum |-> FALSE, v |-> 0]
TruthDicts ==
    {[k \in S |-> IF k = "x" THEN Num(1) ELSE v] : S \in SUBSET {"a", "x"}, v \in {Num(1), Num(2), Text}}
TruthSeqs == UNION {[1..n -> TruthDicts] : n \in 0..MaxDicts}

CustomDicts ==
    {<<<<"c", "nfields">>>>, <<<<"a", "nfields">>>>, <<<<"x", "zeros">>>>,
     <<<<"c", "nfields">>, <<"d", "nfields">>>>}

NoArgs(names, t) ==
    [names |-> names, table |-> t, truth |-> None, custom |-> None,
     lwcol |-> None, lw |-> None, lwdef |-> None, path |-> None]

\* The calls of forward the model makes on an object: any names with any table;
\* with matching names and table, any loss-weight arguments and data path, or any
\* truth dictionaries, or custom label functions after weight, path and truths.
ShapeCalls == {NoArgs(n, t) : n \in NameLists, t \in Tables}
WeightCalls(self) ==
    {[NoArgs(self.names, TableOf(1, Len(self.names))) EXCEPT
        !.lwcol = c, !.lw = w, !.lwdef = d, !.path = p] :
     c \in {None, Some("w")}, w \in {None, Some(-1), Some(1)},
     d \in {None, Some(5)}, p \in {None, Some("p")}}
TruthCalls(self) ==
    {[NoArgs(self.names, TableOf(1, Len(self.names))) EXCEPT !.truth = Some(t)] : t \in TruthSeqs}
LabelCalls(self) ==
    {[NoArgs(self.names, TableOf(1, Len(self.names))) EXCEPT
        !.custom = Some(f), !.truth = t, !.lwcol = Some("w"), !.lw = Some(1), !.path = Some("p")] :
     f \in CustomDicts,
     t \in {None, Some(<<[k \in {"a"} |-> Num(1)]>>), Some(<<[k \in {"x"} |-> Num(1)]>>),
            Some(<<[k \in {"x1"} |-> Num(2)]>>)}}
CallArgs(self) == ShapeCalls \cup WeightCalls(self) \cup TruthCalls(self) \cup LabelCalls(self)

\* ------------------------------------------------------------------ state
VARIABLES
    self,      \* the members of the GraphDefinition (all but rng); status "none" before __init__
    rng,       \* self.rng
    built,     \* self and self.rng as __init__ left them
    pc,        \* the step forward is at; "done" when it has returned or raised, "idle" between calls
    args,      \* the arguments of the call of forward in progress (or of the last one)
    entry,     \* self.rng when that call began
    table,     \* the caller's array input_features
    feats,     \* forward's local input_features once it is a tensor
    graph,     \* forward's local graph
    outnames,  \* forward's local node_feature_names
    result,    \* what the call returned: nothing yet, the graph, or an error
    log,       \* the steps of forward run in this call, in order
    seen,      \* the graphs the custom label functions received in this call
    twin       \* a second GraphDefinition given the same calls (SpecTwin only)

vars == <<self, rng, built, pc, args, entry, table, feats, graph, outnames, result, log, seen, twin>>

NoResult == [kind |-> "none", err |-> ""]
NoTwin == [status |-> "none", seed1 |-> [kind |-> "none", v |-> 0], seed2 |-> [kind |-> "none", v |-> 0],
           rng |-> DefaultRng(0), in |-> <<>>, out1 |-> <<>>, out2 |-> <<>>, calls |-> 0]

Init ==
    /\ self = NoSelf
    /\ rng = DefaultRng(0)
    /\ built = [self |-> NoSelf, rng |-> DefaultRng(0)]
    /\ pc = "idle"
    /\ args = NoArgs(<<>>, <<>>)
    /\ entry = DefaultRng(0)
    /\ table = <<>>
    /\ feats = <<>>
    /\ graph = NoGraph
    /\ outnames = <<>>
    /\ result = NoResult
    /\ log = <<>>
    /\ seen = <<>>
    /\ twin = NoTwin

\* __init__
Construct ==
    /\ self.status = "none"
    /\ \E namesArg \in {None} \cup {Some(n) : n \in NameLists}, pert \in PertDicts,
          seed \in SeedArgs, edge \in BOOLEAN, entropy \in EntropySeeds :
        /\ LET names == IF IsNone(namesArg) THEN DetectorFeatureMap ELSE Get(namesArg)
               e == InitError(names, pert, seed)
           IN IF e # ""
              THEN /\ self' = [self EXCEPT !.status = "failed"]
                   /\ UNCHANGED <<rng, built>>
              ELSE /\ self' = InitSelf(namesArg, pert, edge, "float")
                   /\ built' = [self |-> InitSelf(namesArg, pert, edge, "float"), rng |-> InitRng(seed, entropy)]
                   /\ rng' = InitRng(seed, entropy)
        /\ UNCHANGED <<pc, args, entry, table, feats, graph, outnames, result, log, seen, twin>>

\* forward is called: lines 106-116
Call ==
    /\ self.status = "ok"
    /\ pc = "idle"
    /\ rng.pos < MaxDraws
    /\ \E a \in CallArgs(self) :
        /\ pc' = ForwardOrder[1]
        /\ args' = a
        /\ entry' = rng
        /\ table' = a.table
        /\ feats' = <<>>
        /\ graph' = NoGraph
        /\ outnames' = <<>>
        /\ result' = NoResult
        /\ log' = <<>>
        /\ seen' = <<>>
        /\ UNCHANGED <<self, rng, built, twin>>

\* An exception leaves forward.
Raise(e) ==
    /\ result' = [kind |-> "error", err |-> e]
    /\ pc' = "done"

\* lines 135-139
Validate ==
    /\ pc = "validate"
    /\ log' = Append(log, "validate")
    /\ IF ValidateInput(self, table, args.names)
       THEN /\ pc' = StepAfter("validate")
            /\ UNCHANGED result
       ELSE Raise("AssertionError")
    /\ UNCHANGED <<self, rng, built, args, entry, table, feats, graph, outnames, seen, twin>>

\* lines 141-142
Perturb ==
    /\ pc = "perturb"
    /\ log' = Append(log, "perturb")
    /\ LET p == PerturbInput(self, rng, table)
       IN /\ table' = p.table
          /\ rng' = p.rng
          /\ IF p.err = ""
             THEN /\ pc' = StepAfter("perturb")
                  /\ UNCHANGED result
             ELSE Raise(p.err)
    /\ UNCHANGED <<self, built, args, entry, feats, graph, outnames, seen, twin>>

\* lines 144-148
StandardizeStep ==
    /\ pc = "standardize"
    /\ log' = Append(log, "standardize")
    /\ feats' = Standardize(self, table, args.names)
    /\ pc' = StepAfter("standardize")
    /\ UNCHANGED <<self, rng, built, args, entry, table, graph, outnames, result, seen, twin>>

\* lines 150-154
Node ==
    /\ pc = "node"
    /\ log' = Append(log, "node")
    /\ LET n == NodeDefinitionCall(self, feats)
       IN /\ graph' = n.graph
          /\ outnames' = n.names
    /\ pc' = StepAfter("node")
    /\ UNCHANGED <<self, rng, built, args, entry, table, feats, result, seen, twin>>

\* lines 156-157
Pulses ==
    /\ pc = "pulses"
    /\ log' = Append(log, "pulses")
    /\ graph' = Put(graph, "n_pulses", Scalar(Len(feats)))
    /\ pc' = StepAfter("pulses")
    /\ UNCHANGED <<self, rng, built, args, entry, table, feats, outnames, result, seen, twin>>

\* lines 159-167
Edges ==
    /\ pc = "edges"
    /\ log' = Append(log, "edges")
    /\ graph' = IF self.edge THEN EdgeDefinitionCall(graph) ELSE graph
    /\ pc' = StepAfter("edges")
    /\ UNCHANGED <<self, rng, built, args, entry, table, feats, outnames, result, seen, twin>>

\* lines 169-171
Path ==
    /\ pc = "path"
    /\ log' = Append(log, "path")
    /\ graph' = IF IsNone(args.path) THEN graph ELSE Put(graph, "dataset_path", StrVal(Get(args.path)))
    /\ pc' = StepAfter("path")
    /\ UNCHANGED <<self, rng, built, args, entry, table, feats, outnames, result, seen, twin>>

\* lines 173-179
LossWeight ==
    /\ pc = "lossweight"
    /\ log' = Append(log, "lossweight")
    /\ LET w == AddLossWeights(self, graph, args.lwcol, args.lw, args.lwdef)
       IN /\ graph' = w.graph
          /\ IF w.err = ""
             THEN /\ pc' = StepAfter("lossweight")
                  /\ UNCHANGED result
             ELSE Raise(w.err)
    /\ UNCHANGED <<self, rng, built, args, entry, table, feats, outnames, seen, twin>>

\* lines 181-183
Truth ==
    /\ pc = "truth"
    /\ log' = Append(log, "truth")
    /\ graph' = IF IsNone(args.truth) THEN graph ELSE AddTruth(graph, Get(args.truth))
    /\ pc' = StepAfter("truth")
    /\ UNCHANGED <<self, rng, built, args, entry, table, feats, outnames, result, seen, twin>>

\* lines 185-189
Custom ==
    /\ pc = "custom"
    /\ log' = Append(log, "custom")
    /\ IF IsNone(args.custom)
       THEN UNCHANGED <<graph, seen>>
       ELSE LET c == AddCustomLabels(graph, Get(args.custom))
            IN /\ graph' = c.graph
               /\ seen' = c.seen
    /\ pc' = StepAfter("custom")
    /\ UNCHANGED <<self, rng, built, args, entry, table, feats, outnames, result, twin>>

\* lines 191-194
Features ==
    /\ pc = "features"
    /\ log' = Append(log, "features")
    /\ LET f == AddFeaturesIndividually(graph, outnames)
       IN /\ graph' = f.graph
          /\ IF f.err = ""
             THEN /\ pc' = StepAfter("features")
                  /\ UNCHANGED result
             ELSE Raise(f.err)
    /\ UNCHANGED <<self, rng, built, args, entry, table, feats, outnames, seen, twin>>

\* lines 196-198
Stamp ==
    /\ pc = "stamp"
    /\ log' = Append(log, "stamp")
    /\ graph' = Put(graph, "graph_definition", StrVal(ClassName))
    /\ pc' = StepAfter("stamp")
    /\ result' = IF StepAfter("stamp") = "done" THEN [kind |-> "graph", err |-> ""] ELSE result
    /\ UNCHANGED <<self, rng, built, args, entry, table, feats, outnames, seen, twin>>

\* forward has returned (line 198) or raised: its locals are gone, the caller has
\* the result, and the object can be called again.
Finish ==
    /\ pc = "done"
    /\ pc' = "idle"
    /\ args' = NoArgs(<<>>, <<>>)
    /\ entry' = rng
    /\ table' = <<>>
    /\ feats' = <<>>
    /\ graph' = NoGraph
    /\ outnames' = <<>>
    /\ result' = NoResult
    /\ log' = <<>>
    /\ seen' = <<>>
    /\ UNCHANGED <<self, rng, built, twin>>

Next ==
    \/ Construct
    \/ Call
    \/ Validate
    \/ Perturb
    \/ StandardizeStep
    \/ Node
    \/ Pulses
    \/ Edges
    \/ Path
    \/ LossWeight
    \/ Truth
    \/ Custom
    \/ Features
    \/ Stamp
    \/ Finish

Spec == Init /\ [][Next]_vars

\* ------------------------------------------------------------------ two objects, the same calls
\* What one call of forward does to the generator and to the caller's array:
\* lines 135-142; no later statement of forward reads or writes either.
ForwardDraws(obj, gen, input_features, input_feature_names) ==
    IF ValidateInput(obj, input_features, input_feature_names)
    THEN PerturbInput(obj, gen, input_features)
    ELSE [err |-> "AssertionError", table |-> input_features, rng |-> gen]

\* Two GraphDefinition objects are constructed from the same arguments but the seed.
ConstructTwins ==
    /\ self.status = "none"
    /\ twin.status = "none"
    /\ \E names \in NameLists, pert \in PertDicts, edge \in BOOLEAN,
          seed1 \in SeedArgs, seed2 \in SeedArgs, e1 \in EntropySeeds, e2 \in EntropySeeds :
        /\ InitError(names, pert, seed1) = ""
        /\ InitError(names, pert, seed2) = ""
        /\ self' = InitSelf(Some(names), pert, edge, "float")
        /\ rng' = InitRng(seed1, e1)
        /\ built' = [self |-> InitSelf(Some(names), pert, edge, "float"), rng |-> InitRng(seed1, e1)]
        /\ twin' = [NoTwin EXCEPT !.status = "ok", !.seed1 = seed1, !.seed2 = seed2,
                                  !.rng = InitRng(seed2, e2)]
    /\ UNCHANGED <<pc, args, entry, table, feats, graph, outnames, result, log, seen>>

\* forward is called on both objects with equal arguments (each on its own array).
ForwardTwins ==
    /\ twin.status = "ok"
    /\ rng.pos < MaxDraws
    /\ twin.rng.pos < MaxDraws
    /\ \E a \in ShapeCalls :
        LET p1 == ForwardDraws(self, rng, a.table, a.names)
            p2 == ForwardDraws(self, twin.rng, a.table, a.names)
        IN /\ rng' = p1.rng
           /\ entry' = rng
           /\ twin' = [twin EXCEPT !.rng = p2.rng, !.in = a.table, !.out1 = p1.table,
                                   !.out2 = p2.table, !.calls = IF twin.calls < 2 THEN twin.calls + 1 ELSE 2]
    /\ UNCHANGED <<self, built, pc, args, table, feats, graph, outnames, result, log, seen>>

NextTwin ==
    \/ ConstructTwins
    \/ ForwardTwins

SpecTwin == Init /\ [][NextTwin]_vars

\* ------------------------------------------------------------------ claims
\* The steps of forward this call has run include step.
Ran(step) == \E i \in 1..Len(log) : log[i] = step
Returned == pc = "done" /\ result.kind = "graph"
Failed(e) == pc = "done" /\ result.kind = "error" /\ result.err = e

\* The last index of a name in a list.
LastIndexOf(l, key) == CHOOSE i \in 1..Len(l) : l[i] = key /\ \A j \in (i + 1)..Len(l) : l[j] # key

\* C1: once the validator has run, the call was rejected with a validation error
\* exactly when the names passed differ from the configured names (in any position,
\* or in number) or the table's column count differs from the number of names.
C1_NameOrder ==
    Ran("validate") =>
        (Failed("AssertionError")
            <=> ~(args.names = self.names /\ NumCols(args.table) = Len(args.names)))

\* C1 witness: a reordering of the configured names was rejected.
C1_Witness ==
    /\ Failed("AssertionError")
    /\ Len(args.names) = Len(self.names)
    /\ args.names # self.names
    /\ {args.names[i] : i \in 1..Len(args.names)} = {self.names[i] : i \in 1..Len(self.names)}
    /\ NumCols(args.table) = Len(args.names)

\* C2: a call with a negative loss weight, a loss-weight column and a default value
\* returns a graph whose field of that name is the default as a [1, 1] column vector.
C2_DefaultSubstituted ==
    (/\ pc = "done"
     /\ Ran("lossweight")
     /\ ~IsNone(args.lw) /\ ~IsNone(args.lwcol) /\ ~IsNone(args.lwdef)
     /\ Get(args.lw) < 0)
    => (/\ result.kind = "graph"
        /\ Has(graph, Get(args.lwcol))
        /\ graph[Get(args.lwcol)] = Matrix(<<<<Get(args.lwdef)>>>>))

\* C3: a call the validator rejected has run no other step: the generator and the
\* caller's table are as at the call, no delegate ran, no graph exists or is returned.
C3_FailFast ==
    (result.kind = "error" /\ result.err = "AssertionError") =>
        /\ pc = "done"
        /\ log = <<"validate">>
        /\ rng = entry
        /\ table = args.table
        /\ feats = <<>>
        /\ graph = NoGraph
        /\ seen = <<>>

\* C3 witness: a call was rejected on an object that has a perturbation configured.
C3_Witness ==
    /\ Failed("AssertionError")
    /\ ~IsNone(self.pert)
    /\ rng = entry

\* The truth dictionaries of the call (none when truth_dicts is None).
TruthOf == IF IsNone(args.truth) THEN <<>> ELSE Get(args.truth)
\* The dictionaries that contain key, and those that hold a number under it.
DictsWith(key) == {i \in 1..Len(TruthOf) : key \in DOMAIN TruthOf[i]}
NumDictsWith(key) == {i \in DictsWith(key) : TruthOf[i][key].isnum}
TruthKeys == UNION {DOMAIN TruthOf[i] : i \in 1..Len(TruthOf)}
Last(S) == CHOOSE i \in S : \A j \in S : j <= i
CustomKeys == IF IsNone(args.custom) THEN {} ELSE KeySet(Get(args.custom))
\* The field names a step after the truth step writes in this call.
WrittenAfterTruth ==
    CustomKeys \cup ({outnames[i] : i \in 1..Len(outnames)} \ {"x"}) \cup {"features", "graph_definition"}

C6_SameSeedSameValues ==
    (twin.status = "ok" /\ twin.seed1.kind = "int" /\ twin.seed2 = twin.seed1) =>
        /\ twin.out1 = twin.out2
        /\ rng = twin.rng

\* C6 witness: a later call on two objects of one integer seed perturbed the table.
C6_Witness ==
    /\ twin.status = "ok"
    /\ twin.seed1.kind = "int"
    /\ twin.seed2 = twin.seed1
    /\ ~IsNone(self.pert)
    /\ twin.calls = 2
    /\ entry.pos > 0
    /\ rng.pos > entry.pos
    /\ twin.out1 # twin.in
    /\ twin.out1 = twin.out2

\* The columns _perturb_input may replace: the indices resolved by __init__.
PerturbedCols == IF IsNone(self.cols) THEN {} ELSE {Get(self.cols)[j] : j \in 1..Len(Get(self.cols))}
PerturbedNames == IF IsNone(self.pert) THEN {} ELSE KeySet(Get(self.pert))

\* C7: once the perturbation stage has run, the table has the shape it had at the
\* call, every column that is not at a resolved index, and so every column whose name
\* is not in the specification, holds the values it had at the call, and with no
\* specification the table and the generator are as at the call.
C7_PerturbFrame ==
    Ran("perturb") =>
        /\ Len(table) = Len(args.table)
        /\ \A r \in 1..Len(table) :
            /\ Len(table[r]) = Len(args.table[r])
            /\ \A c \in 1..Len(table[r]) :
                (c \notin PerturbedCols \/ self.names[c] \notin PerturbedNames) =>
                    table[r][c] = args.table[r][c]
        /\ IsNone(self.pert) => (table = args.table /\ rng = entry)

\* C7 witness: a call has replaced one column of a two-column table and kept the other.
C7_Witness ==
    /\ Returned
    /\ ~IsNone(self.pert)
    /\ \E c, d \in 1..NumCols(table) :
        /\ c \in PerturbedCols
        /\ d \notin PerturbedCols
        /\ \A r \in 1..Len(table) : table[r][c] # args.table[r][c] /\ table[r][d] = args.table[r][d]

\* C8: a call with a negative loss weight, a column name and no default fails with
\* a configuration error in the loss-weight step and returns no graph; with the
\* weight or the column name absent the step fails no call and attaches no field.
C8_MissingDefault ==
    /\ (Ran("lossweight") /\ ~IsNone(args.lw) /\ ~IsNone(args.lwcol) /\ IsNone(args.lwdef)
        /\ Get(args.lw) < 0)
        => (Failed("ValueError") /\ log[Len(log)] = "lossweight")
    /\ (Ran("lossweight") /\ (IsNone(args.lw) \/ IsNone(args.lwcol)))
        => /\ result.err \notin {"ValueError", "AttributeError"}
           /\ pc = "truth" => DOMAIN graph \subseteq {"x", "n_pulses", "edge_index", "dataset_path"}

\* C8 witness: a call failed for the missing default.
C8_Witness ==
    /\ Failed("ValueError")
    /\ ~IsNone(args.lw) /\ ~IsNone(args.lwcol) /\ IsNone(args.lwdef)
    /\ Get(args.lw) < 0

\* C9: every graph a custom label function received carries the pulse count, the
\* edges of a configured edge delegate, a supplied data path, a supplied loss weight
\* and every truth label, and carries neither the feature list, a per-feature column
\* nor the stamp; every returned graph's graph_definition is the class name.
C9_AttachmentOrder ==
    /\ \A i \in 1..Len(seen) :
        /\ Has(seen[i], "x")
        /\ Has(seen[i], "n_pulses")
        /\ self.edge => Has(seen[i], "edge_index")
        /\ ~IsNone(args.path) => Has(seen[i], "dataset_path")
        /\ (~IsNone(args.lw) /\ ~IsNone(args.lwcol)) => Has(seen[i], Get(args.lwcol))
        /\ \A key \in TruthKeys : NumDictsWith(key) # {} => Has(seen[i], key)
        /\ ~Has(seen[i], "features")
        /\ ~Has(seen[i], "graph_definition")
        /\ \A j \in 1..Len(self.out_names) :
            (self.out_names[j] # "x" /\ Has(seen[i], self.out_names[j]))
                => seen[i][self.out_names[j]].kind # "tensor1"
    /\ Returned => (Has(graph, "graph_definition") /\ graph["graph_definition"] = StrVal(ClassName))
    /\ Has(graph, "graph_definition") => (Ran("stamp") /\ pc = "done")

\* C9 witness: a graph was returned by a call with edges, path, weight, truths and
\* two custom label functions.
C9_Witness ==
    /\ Returned
    /\ Len(seen) = 2
    /\ self.edge
    /\ ~IsNone(args.path)
    /\ ~IsNone(args.lw)
    /\ NumDictsWith("a") # {}
    /\ Has(graph, "x1")

\* C10: from construction on, the members of the object are as __init__ left them
\* and so is the generator of an object with no perturbation specification.
C10_ConfigFrame ==
    self.status = "ok" =>
        /\ self = built.self
        /\ self.nb_inputs = Len(self.names)
        /\ IsNone(self.pert) => rng = built.rng
        /\ rng.seed = built.rng.seed

\* C10 witness: between calls, after a call that drew from the generator.
C10_Witness ==
    /\ self.status = "ok"
    /\ pc = "idle"
    /\ rng # built.rng
    /\ self = built.self

====
